---- MODULE Spec2Model ----
(***************************************************************************)
(* The goldboot image container (src/goldboot/src/image.rs): convert, open, *)
(* load and write of ImageHandle, over a symbolic file system holding one  *)
(* image file and one target.                                              *)
(*                                                                         *)
(* Bytes of a file are kept as a sequence of regions, each with the length *)
(* its serialised form has on disk, so that every offset the code computes *)
(* is compared with the position the region really has.  SHA-256 is a free *)
(* constructor (collision free), AES-256-GCM a sealed box that opens only  *)
(* with the key and nonce it was closed with and only while no byte of it  *)
(* has been changed, and Zstandard a run-length frame.                     *)
(***************************************************************************)
EXTENDS Integers, Sequences, FiniteSets, TLC

(* ------------------------------ bounds -------------------------------- *)

\* log2 of the qcow2 cluster size of every source image
ClusterBits == 1
\* largest qcow2 virtual disk size in bytes
MaxDiskSize == 5
\* largest length in bytes of a target that exists before the first write
MaxTargetLen == 6
\* largest number of writes one run may see killed
MaxInterrupts == 1
\* Longest period of a random stream that repeats
MaxPeriod == 3
\* largest number of metadata regions of one image that get overwritten
MaxDamage == 2
\* number of calls of write that run at the same time
MaxWriters == 2

(* ------------------------- program constants --------------------------- *)

\* magic(4) version(1) size(8) timestamp(8) encryption_type(1) name(64)
\* directory_nonce(12) directory_offset(8) directory_size(4)
PrimaryHeaderLen == 110
\* block_size(4) cluster_count(4) compression(1) encryption(1) nonce_count(4)
\* cluster_key(32), without the nonce table
ProtectedHeaderFixedLen == 46
NonceLen == 12
\* digest_count(4)
DigestTableFixedLen == 4
\* cluster_offset(8) block_offset(8) digest(32)
DigestTableEntryLen == 48
\* three nonces, three sizes, two offsets
DirectoryLen == 64
\* the u32 size field in front of a cluster's data
ClusterSizeFieldLen == 4
\* the authentication tag AES-256-GCM appends
TagLen == 16
\* first byte of a Zstandard frame
ZstdMagic == 40
\* the clock reading taken by convert
Now == 1

(* ------------------------------ Option --------------------------------- *)

None == <<>>
Some(x) == <<x>>
is_some(o) == o # <<>>
is_none(o) == o = <<>>
unwrap(o) == o[1]
unwrap_or(o, d) == IF o = <<>> THEN d ELSE o[1]

Ok(v) == [ok |-> TRUE, val |-> v]
Err(e) == [ok |-> FALSE, err |-> e]

(* ------------------------------ hashing -------------------------------- *)

Sha256(x) == <<"sha256", x>>

\* The key an AES-256-GCM cipher is built from: SHA-256 of the password.
new_key(password) == Sha256(password)

\* Key::from_slice of the 32 random bytes of the cluster key
Key_from_slice(k) == <<"raw", k>>

(* ----------------------------- byte blobs ------------------------------ *)

\* A run of bytes on disk: `body` is what the bytes decode to, `len` how
\* many bytes there are.
Plain(body, len) == [sealed |-> FALSE, body |-> body, len |-> len]

encrypt(cipher, nonce, blob) ==
    [sealed |-> TRUE, key |-> cipher, nonce |-> nonce, intact |-> TRUE,
     body |-> blob.body, len |-> blob.len + TagLen]

decrypt(cipher, nonce, blob) ==
    IF blob.sealed /\ blob.intact /\ blob.key = cipher /\ blob.nonce = nonce
    THEN Ok(Plain(blob.body, blob.len - TagLen))
    ELSE Err("AuthenticationFailed")

(* ------------------------------ Zstandard ------------------------------ *)

RECURSIVE RunLength(_, _)
\* number of leading bytes of s[i..] equal to s[i]
RunLength(s, i) ==
    IF i < Len(s) /\ s[i + 1] = s[i] THEN 1 + RunLength(s, i + 1) ELSE 1

RECURSIVE Runs(_, _)
Runs(s, i) ==
    IF i > Len(s) THEN <<>>
    ELSE LET n == RunLength(s, i) IN <<n, s[i]>> \o Runs(s, i + n)

RECURSIVE Expand(_, _)
Expand(f, i) ==
    IF i > Len(f) THEN <<>>
    ELSE [k \in 1..f[i] |-> f[i + 1]] \o Expand(f, i + 2)

\* zstd::encode_all: a frame of the magic byte and the (count, byte) runs
encode_all(data) == <<ZstdMagic>> \o Runs(data, 1)

\* zstd::decode_all: fails on a frame that is not well formed
decode_all(frame) ==
    IF Len(frame) = 0 \/ frame[1] # ZstdMagic \/ (Len(frame) - 1) % 2 # 0
       \/ \E i \in 1..((Len(frame) - 1) \div 2) : frame[2 * i] = 0
    THEN Err("Zstd")
    ELSE Ok(Expand(frame, 2))

(* -------------------------------- qcow2 -------------------------------- *)

cluster_size(header) == 2 ^ header.cluster_bits

\* Entries of one L2 table; the table fills one cluster, an entry one byte.
l2_entries_per_cluster(header) == cluster_size(header)

Zeros(n) == [i \in 1..n |-> 0]

\* The cluster contents a source may hold: all zero, and zeros closed by a
\* one.
BlockValues(n) == {Zeros(n), [i \in 1..n |-> IF i = n THEN 1 ELSE 0]}

L2Entries(n) ==
    {[is_used |-> FALSE, contents |-> <<>>]}
        \cup {[is_used |-> TRUE, contents |-> b] : b \in BlockValues(n)}

CeilDiv(a, b) == (a + b - 1) \div b

\* The qcow2 images of disk size s: an L1 table covering the disk, each entry
\* without an L2 table or with one; no cluster past the end of the disk is
\* allocated.
QcowsOfSize(s) ==
    LET hdr == [size |-> s, cluster_bits |-> ClusterBits]
        cs == cluster_size(hdr)
        per == l2_entries_per_cluster(hdr)
        nblocks == CeilDiv(s, cs)
        nl1 == CeilDiv(nblocks, per)
        l1s == {None} \cup {Some(t) : t \in [1..per -> L2Entries(cs)]}
    IN {[header |-> hdr, l1_table |-> t] :
          t \in {u \in [1..nl1 -> l1s] :
                   \A i \in 1..nl1 : \A j \in 1..per :
                      (is_some(u[i]) /\ (i - 1) * per + j > nblocks)
                          => ~unwrap(u[i])[j].is_used}}

Qcows == UNION {QcowsOfSize(s) : s \in 1..MaxDiskSize}

\* L1Entry::read_l2
read_l2(l1_entry) == l1_entry

\* L2Entry::read_contents: the cluster's bytes
read_contents(l2_entry) == l2_entry.contents

RECURSIVE SumSeq(_)
SumSeq(s) == IF s = <<>> THEN 0 ELSE s[1] + SumSeq(Tail(s))

\* Qcow3::count_clusters: the used L2 entries
count_clusters(source) ==
    SumSeq([i \in 1..Len(source.l1_table) |->
              IF is_none(read_l2(source.l1_table[i])) THEN 0
              ELSE Cardinality({j \in 1..l2_entries_per_cluster(source.header) :
                                  unwrap(read_l2(source.l1_table[i]))[j].is_used})])

(* --------------------------- random generator -------------------------- *)

\* Every draw returns the same value.
gen_same(rng, k) == 1

\* rng.gen(): the k-th value drawn from stream rng.  Stream 0 never repeats
\* a value; a stream p > 0 returns to its first value after p draws.
gen(rng, k) == IF rng = 0 THEN k ELSE ((k - 1) % rng) + 1

\* The generator of a run whose draws are all different
RngStreams == {0}

\* Every generator: the draws of rand::thread_rng() are independent, and
\* nothing keeps one from returning a value it returned before.
AnyRngStreams == 0..MaxPeriod

(* ---------------------------- build manifest --------------------------- *)

Passwords == {"", "1234"}

BuildConfigs ==
    {[name |-> "Small test", password |-> p] :
        p \in {None} \cup {Some(w) : w \in Passwords}}

\* serde_json::to_vec of a BuildConfig: {"name":"..","password":..}
to_vec(config) ==
    Plain(config,
          23 + Len(config.name)
             + (IF is_none(config.password) THEN 4
                ELSE 2 + Len(unwrap(config.password))))

(* ------------------------------ the file ------------------------------- *)

Segment(kind, blob) == [kind |-> kind, blob |-> blob]

\* File::stream_position after writing the segments
stream_position(segs) == SumSeq([i \in 1..Len(segs) |-> segs[i].blob.len])

NoFile == [exists |-> FALSE, segs |-> <<>>]
FileOf(segs) == [exists |-> TRUE, segs |-> segs]

\* binrw write_to of each struct
write_PrimaryHeader(h) == Plain(h, PrimaryHeaderLen)
write_ProtectedHeader(h) ==
    Plain(h, ProtectedHeaderFixedLen + NonceLen * Len(h.nonce_table))
write_DigestTable(t) ==
    Plain(t, DigestTableFixedLen + DigestTableEntryLen * Len(t.digest_table))
write_Directory(d) == Plain(d, DirectoryLen)
\* A cluster record written without its size field
write_Cluster_unprefixed(c) == Plain(c, c.data.len)
write_Cluster(c) == Plain(c, ClusterSizeFieldLen + c.data.len)

\* The `match primary_header.encryption_type` around each metadata region
seal(encryption_type, cipher, nonce, blob) ==
    IF encryption_type = "Aes256" THEN encrypt(cipher, nonce, blob) ELSE blob

(* ------------------------------ file names ---------------------------- *)

\* Length of the hex encoding of a SHA-256 digest (hex::encode of 32 bytes)
DigestHexLen == 64
\* The repetition count of the pattern "[A-Fa-f0-9]{64}"
PatternRepeat == 64

\* A file stem is kept as its runs of characters: a run of hex digits
\* [A-Fa-f0-9] or a run of other characters, with its length.  Which digits
\* a run holds is not kept: a stem written out as Text stands for the names
\* of that shape that are not the hash of the image.
Run(hex, n) == [hex |-> hex, n |-> n]

Text(runs) == [encoded |-> FALSE, runs |-> runs, digest |-> None]

\* hex::encode of a digest: DigestHexLen hex digits
hex_encode(digest) ==
    [encoded |-> TRUE, runs |-> <<Run(TRUE, DigestHexLen)>>,
     digest |-> Some(digest)]

\* "small", the stem the tests use: s m / a / l l
small == Text(<<Run(FALSE, 2), Run(TRUE, 1), Run(FALSE, 2)>>)

\* Regex::new("[A-Fa-f0-9]{64}").is_match(stem): some PatternRepeat
\* consecutive characters of the stem are hex digits
is_match(stem) ==
    \E i \in 1..Len(stem.runs) :
        stem.runs[i].hex /\ stem.runs[i].n >= PatternRepeat

\* compute_id: the hex SHA-256 of the whole file
compute_id(file) == hex_encode(Sha256(file.segs))

\* The image ID open takes (lines 344-348): the stem when it matches the
\* pattern, the hash of the file otherwise
open_id(stem, file) == IF is_match(stem) THEN stem ELSE compute_id(file)

(* ------------------------------- convert ------------------------------- *)

\* An empty password is taken as no password.
header_encryption_nonempty(config) ==
    IF is_some(config.password) /\ unwrap(config.password) # ""
    THEN "Aes256" ELSE "None"

\* The encryption type of the primary header, from the manifest as given
header_encryption(config) ==
    IF is_some(config.password) THEN "Aes256" ELSE "None"

\* The clone keeps the password.
cleared_config_kept(config) == config

\* `config.clone()` with the password cleared (lines 449-450); every later
\* read of `config` sees this value
cleared_config(config) == [config EXCEPT !.password = None]

\* The cluster encryption, read from the shadowing `config` (line 457)
cluster_encryption(config) ==
    IF is_some(cleared_config(config).password) THEN "Aes256" ELSE "None"

\* The protected header convert prepares (lines 453-472)
new_protected_header(source, config, rng) ==
    LET count == count_clusters(source)
        with_nonces == is_some(cleared_config(config).password)
    IN [block_size |-> cluster_size(source.header),
        cluster_count |-> count,
        cluster_compression |-> "Zstd",
        cluster_encryption |-> cluster_encryption(config),
        cluster_key |-> gen(rng, 5),
        nonce_count |-> IF with_nonces THEN count ELSE 0,
        nonce_table |-> IF with_nonces
                        THEN [i \in 1..count |-> gen(rng, 5 + i)] ELSE <<>>]

\* The digest is taken over the cluster key followed by the contents.
convert_cluster_keyed(protected_header, l2_entry, acc) ==
    LET contents == read_contents(l2_entry)
        entry == [digest |-> Sha256(<<protected_header.cluster_key>> \o contents),
                  block_offset |-> acc.block_offset,
                  cluster_offset |-> acc.cluster_offset]
        zblob == Plain(encode_all(contents), Len(encode_all(contents)))
        cluster == [size |-> zblob.len, data |-> zblob]
    IN [acc EXCEPT
           !.digest_table = Append(@, entry),
           !.clusters = Append(@, Segment("cluster", write_Cluster(cluster))),
           !.cluster_offset = @ + ClusterSizeFieldLen + cluster.size,
           !.cluster_count = @ + 1]

\* A used cluster that holds only zeros is passed over.
convert_cluster_skip_zero(protected_header, l2_entry, acc) ==
    LET contents == read_contents(l2_entry)
        entry == [digest |-> Sha256(contents),
                  block_offset |-> acc.block_offset,
                  cluster_offset |-> acc.cluster_offset]
        zblob == Plain(encode_all(contents), Len(encode_all(contents)))
        cluster == [size |-> zblob.len, data |-> zblob]
    IN IF contents = Zeros(Len(contents)) THEN acc
       ELSE [acc EXCEPT
                !.digest_table = Append(@, entry),
                !.clusters = Append(@, Segment("cluster", write_Cluster(cluster))),
                !.cluster_offset = @ + ClusterSizeFieldLen + cluster.size,
                !.cluster_count = @ + 1]

\* One used L2 entry (lines 539-590): digest, compress, encrypt, write
convert_cluster(protected_header, l2_entry, acc) ==
    LET contents == read_contents(l2_entry)
        entry == [digest |-> Sha256(contents),
                  block_offset |-> acc.block_offset,
                  cluster_offset |-> acc.cluster_offset]
        compressed == IF protected_header.cluster_compression = "Zstd"
                      THEN encode_all(contents) ELSE contents
        zblob == Plain(compressed, Len(compressed))
        data == IF protected_header.cluster_encryption = "Aes256"
                THEN encrypt(Key_from_slice(protected_header.cluster_key),
                             protected_header.nonce_table[acc.cluster_count + 1],
                             zblob)
                ELSE zblob
        cluster == [size |-> data.len, data |-> data]
    IN [acc EXCEPT !.digest_table = Append(@, entry),
                   !.clusters = Append(@, Segment("cluster", write_Cluster(cluster))),
                   !.cluster_offset = @ + ClusterSizeFieldLen + cluster.size,
                   !.cluster_count = @ + 1]

RECURSIVE convert_l2(_, _, _, _, _)
\* The loop over one L2 table (lines 537-594)
convert_l2(source, protected_header, l2_table, j, acc) ==
    IF j > Len(l2_table) THEN acc
    ELSE LET done == IF l2_table[j].is_used
                     THEN convert_cluster(protected_header, l2_table[j], acc)
                     ELSE acc
         IN convert_l2(source, protected_header, l2_table, j + 1,
                       [done EXCEPT !.block_offset =
                                       @ + cluster_size(source.header)])

RECURSIVE convert_l1_skip(_, _, _, _)
\* An L1 entry without an L2 table leaves block_offset where it is.
convert_l1_skip(source, protected_header, i, acc) ==
    IF i > Len(source.l1_table) THEN acc
    ELSE LET l2 == read_l2(source.l1_table[i])
         IN IF is_some(l2)
            THEN convert_l1_skip(source, protected_header, i + 1,
                                 convert_l2(source, protected_header,
                                            unwrap(l2), 1, acc))
            ELSE convert_l1_skip(source, protected_header, i + 1, acc)

RECURSIVE convert_l1(_, _, _, _)
\* The loop over the L1 table (lines 535-602)
convert_l1(source, protected_header, i, acc) ==
    IF i > Len(source.l1_table) THEN acc
    ELSE LET l2 == read_l2(source.l1_table[i])
         IN IF is_some(l2)
            THEN convert_l1(source, protected_header, i + 1,
                            convert_l2(source, protected_header, unwrap(l2), 1, acc))
            ELSE convert_l1(source, protected_header, i + 1,
                            [acc EXCEPT !.block_offset =
                                @ + cluster_size(source.header)
                                    * l2_entries_per_cluster(source.header)])

\* The primary header is left as it was first written.
rewrite_primary_skipped(segs, primary_header) == segs

\* seek(0) and the second write of the primary header (lines 641-642)
rewrite_primary(segs, primary_header) ==
    [segs EXCEPT ![1] = Segment("primary", write_PrimaryHeader(primary_header))]

\* ImageHandle::convert.  `fail` is -1 for a run without I/O error, and
\* otherwise the number of regions written when an I/O call returns an
\* error (0: the destination was created and nothing written).  The result
\* is the destination file and, on success, the handle.
convert(source, config, rng, fail) ==
    LET header_cipher == new_key(unwrap_or(config.password, ""))
        encryption_type == header_encryption(config)
        directory0 == [protected_nonce |-> gen(rng, 1), protected_size |-> 0,
                       config_nonce |-> gen(rng, 2), config_offset |-> 0,
                       config_size |-> 0,
                       digest_table_nonce |-> gen(rng, 3),
                       digest_table_offset |-> 0, digest_table_size |-> 0]
        primary0 == [version |-> 1, size |-> source.header.size,
                     directory_nonce |-> gen(rng, 4), directory_offset |-> 0,
                     directory_size |-> 0, timestamp |-> Now,
                     encryption_type |-> encryption_type,
                     name |-> config.name]
        cleared == cleared_config(config)
        protected_header == new_protected_header(source, config, rng)
        \* write primary header, protected header, config
        seg1 == Segment("primary", write_PrimaryHeader(primary0))
        protected_bytes == seal(encryption_type, header_cipher,
                                directory0.protected_nonce,
                                write_ProtectedHeader(protected_header))
        seg2 == Segment("protected", protected_bytes)
        config_bytes == seal(encryption_type, header_cipher,
                             directory0.config_nonce, to_vec(cleared))
        seg3 == Segment("config", config_bytes)
        directory1 == [directory0 EXCEPT
                          !.protected_size = protected_bytes.len,
                          !.config_offset = stream_position(<<seg1, seg2>>),
                          !.config_size = config_bytes.len]
        \* clusters
        acc == convert_l1(source, protected_header, 1,
                          [block_offset |-> 0, cluster_count |-> 0,
                           cluster_offset |-> stream_position(<<seg1, seg2, seg3>>),
                           digest_table |-> <<>>, clusters |-> <<>>])
        digest_table == [digest_count |-> protected_header.cluster_count,
                         digest_table |-> acc.digest_table]
        upto_clusters == <<seg1, seg2, seg3>> \o acc.clusters
        \* digest table, directory
        digest_table_bytes == seal(encryption_type, header_cipher,
                                   directory1.digest_table_nonce,
                                   write_DigestTable(digest_table))
        directory == [directory1 EXCEPT
                         !.digest_table_offset = stream_position(upto_clusters),
                         !.digest_table_size = digest_table_bytes.len]
        upto_digests == Append(upto_clusters,
                               Segment("digest", digest_table_bytes))
        directory_bytes == seal(encryption_type, header_cipher,
                                primary0.directory_nonce,
                                write_Directory(directory))
        primary_header == [primary0 EXCEPT
                              !.directory_offset = stream_position(upto_digests),
                              !.directory_size = directory_bytes.len]
        provisional == Append(upto_digests, Segment("directory", directory_bytes))
        final == rewrite_primary(provisional, primary_header)
    IN IF fail >= 0
       THEN [result |-> "Io",
             file |-> FileOf(SubSeq(provisional, 1, fail)),
             handle |-> None]
       ELSE [result |-> "Ok",
             file |-> FileOf(final),
             handle |-> Some([id |-> compute_id(FileOf(final)),
                              primary_header |-> primary_header,
                              protected_header |-> Some(protected_header),
                              config |-> Some(cleared),
                              digest_table |-> Some(digest_table),
                              directory |-> Some(directory),
                              file_size |-> stream_position(final)])]

\* Number of regions convert writes for a source
RegionCount(source) == 5 + count_clusters(source)

(* ------------------------------- reading ------------------------------- *)

RECURSIVE SegIndexAt(_, _, _, _)
\* Index of the region that starts at offset off, 0 when none does
SegIndexAt(segs, off, i, pos) ==
    IF i > Len(segs) \/ pos > off THEN 0
    ELSE IF pos = off THEN i
    ELSE SegIndexAt(segs, off, i + 1, pos + segs[i].blob.len)

\* The count-prefixed vectors binrw reads back (#[br(count = ..)])
parse(kind, body) ==
    IF kind = "digest"
    THEN IF body.digest_count <= Len(body.digest_table)
         THEN Ok([body EXCEPT !.digest_table = SubSeq(@, 1, body.digest_count)])
         ELSE Err("Io")
    ELSE IF kind = "protected"
    THEN IF body.nonce_count <= Len(body.nonce_table)
         THEN Ok([body EXCEPT !.nonce_table = SubSeq(@, 1, body.nonce_count)])
         ELSE Err("Io")
    ELSE Ok(body)

\* file.seek(off); file.read_be() of a struct stored as plaintext
read_be(file, off, kind) ==
    LET i == SegIndexAt(file.segs, off, 1, 0)
    IN IF i = 0 THEN Err("Io")
       ELSE IF file.segs[i].kind # kind \/ file.segs[i].blob.sealed
       THEN Err("Corrupt")
       ELSE parse(kind, file.segs[i].blob.body)

\* file.seek(off); file.read_exact(size bytes)
read_exact(file, off, size) ==
    LET i == SegIndexAt(file.segs, off, 1, 0)
    IN IF i = 0 \/ off + size > stream_position(file.segs) THEN Err("Io")
       ELSE IF file.segs[i].blob.len # size
       THEN Ok(Segment("torn", Plain(<<>>, size)))
       ELSE Ok(file.segs[i])

\* The plaintext path is taken only when no password was given as well.
read_region_keyed(file, encryption_type, cipher, nonce, off, size, kind) ==
    IF encryption_type = "None" /\ cipher = new_key("")
    THEN read_be(file, off, kind)
    ELSE LET r == read_exact(file, off, size)
         IN IF ~r.ok THEN r
            ELSE LET d == decrypt(cipher, nonce, r.val.blob)
                 IN IF ~d.ok THEN d
                    ELSE IF r.val.kind # kind THEN Err("Corrupt")
                    ELSE parse(kind, d.val.body)

\* A region of the image as load reads it: plaintext, or size bytes opened
\* with the header key
read_region(file, encryption_type, cipher, nonce, off, size, kind) ==
    IF encryption_type = "None" THEN read_be(file, off, kind)
    ELSE LET r == read_exact(file, off, size)
         IN IF ~r.ok THEN r
            ELSE LET d == decrypt(cipher, nonce, r.val.blob)
                 IN IF ~d.ok THEN d
                    ELSE IF r.val.kind # kind THEN Err("Corrupt")
                    ELSE parse(kind, d.val.body)

\* The config region: config_size bytes, opened if encrypted, then JSON
read_config(file, encryption_type, cipher, directory) ==
    LET r == read_exact(file, directory.config_offset, directory.config_size)
    IN IF ~r.ok THEN r
       ELSE LET d == IF encryption_type = "None" THEN Ok(r.val.blob)
                     ELSE decrypt(cipher, directory.config_nonce, r.val.blob)
            IN IF ~d.ok THEN d
               ELSE IF r.val.kind # "config" \/ d.val.sealed THEN Err("Json")
               ELSE Ok(d.val.body)

(* -------------------------------- load --------------------------------- *)

\* load assigns every field but the config.
populate_partial(self, directory, protected_header, digest_table, config) ==
    [self EXCEPT !.directory = Some(directory),
                 !.protected_header = Some(protected_header),
                 !.digest_table = Some(digest_table)]

\* The four assignments that end load (lines 320-324)
populate(self, directory, protected_header, digest_table, config) ==
    [self EXCEPT !.directory = Some(directory),
                 !.protected_header = Some(protected_header),
                 !.digest_table = Some(digest_table),
                 !.config = Some(config)]

\* ImageHandle::load: Ok(the handle after the call) or Err(the error)
load(self, file, password) ==
    IF ~file.exists THEN Err("Io")
    ELSE
    LET cipher == new_key(unwrap_or(password, ""))
        enc == self.primary_header.encryption_type
        directory == read_region(file, enc, cipher,
                                 self.primary_header.directory_nonce,
                                 self.primary_header.directory_offset,
                                 self.primary_header.directory_size,
                                 "directory")
    IN IF ~directory.ok THEN directory
       ELSE
       LET primary == read_be(file, 0, "primary")
           protected_header ==
               read_region(file, enc, cipher, directory.val.protected_nonce,
                           PrimaryHeaderLen, directory.val.protected_size,
                           "protected")
       IN IF ~primary.ok THEN primary
          ELSE IF ~protected_header.ok THEN protected_header
          ELSE
          LET config == read_config(file, enc, cipher, directory.val)
          IN IF ~config.ok THEN config
             ELSE
             LET digest_table ==
                     read_region(file, enc, cipher,
                                 directory.val.digest_table_nonce,
                                 directory.val.digest_table_offset,
                                 directory.val.digest_table_size, "digest")
             IN IF ~digest_table.ok THEN digest_table
                ELSE Ok(populate(self, directory.val, protected_header.val,
                                 digest_table.val, config.val))

(* -------------------------------- open --------------------------------- *)

\* open hands out an empty digest table.
opened_digest_table_empty == Some([digest_count |-> 0, digest_table |-> <<>>])

\* The digest table of a handle open returns (lines 369 and 380)
opened_digest_table == None

\* ImageHandle::open of the file at a path with the given stem: Ok(handle)
\* or Err(the error)
open(stem, file) ==
    IF ~file.exists THEN Err("Io")
    ELSE
    LET primary_header == read_be(file, 0, "primary")
    IN IF ~primary_header.ok THEN primary_header
       ELSE IF primary_header.val.encryption_type = "None"
       THEN LET protected_header == read_be(file, PrimaryHeaderLen, "protected")
                directory == read_be(file, primary_header.val.directory_offset,
                                     "directory")
            IN IF ~protected_header.ok THEN protected_header
               ELSE IF ~directory.ok THEN directory
               ELSE LET config == read_config(file, "None", None, directory.val)
                    IN IF ~config.ok THEN config
                       ELSE Ok([id |-> open_id(stem, file),
                                primary_header |-> primary_header.val,
                                protected_header |-> Some(protected_header.val),
                                config |-> Some(config.val),
                                digest_table |-> opened_digest_table,
                                directory |-> Some(directory.val),
                                file_size |-> stream_position(file.segs)])
       ELSE Ok([id |-> open_id(stem, file),
                primary_header |-> primary_header.val,
                protected_header |-> None,
                config |-> None,
                digest_table |-> opened_digest_table,
                directory |-> None,
                file_size |-> stream_position(file.segs)])

(* -------------------------------- write -------------------------------- *)

Max(a, b) == IF a >= b THEN a ELSE b
Min(a, b) == IF a <= b THEN a ELSE b

\* A handle whose digest table has no entry is taken as not loaded.
not_loaded_empty(self) ==
    \/ is_none(self.protected_header)
    \/ is_none(self.digest_table)
    \/ unwrap(self.digest_table).digest_table = <<>>

\* The loaded-state check that opens write (lines 661-663)
not_loaded(self) ==
    is_none(self.protected_header) \/ is_none(self.digest_table)

\* The length is set whatever the target's length was.
extend_always(bytes, size) ==
    [p \in 1..size |-> IF p <= Len(bytes) THEN bytes[p] ELSE 0]

\* A target that is too short is recreated empty before it is sized.
extend_recreate(bytes, size) ==
    IF Len(bytes) < size THEN Zeros(size) ELSE bytes

\* dest.set_len(size) when the target is shorter (lines 685-687)
extend(bytes, size) ==
    IF Len(bytes) < size THEN bytes \o Zeros(size - Len(bytes)) ELSE bytes

\* dest.seek(off); dest.read_exact(n bytes)
read_block(bytes, off, n) ==
    IF off + n > Len(bytes) THEN Err("Io")
    ELSE Ok(SubSeq(bytes, off + 1, off + n))

\* A single write call that stops one byte short
write_short(bytes, off, data) ==
    [p \in 1..Max(Len(bytes), off + Len(data) - 1) |->
        IF p > off /\ p <= off + Len(data) - 1 THEN data[p - off] ELSE bytes[p]]

\* dest.seek(off); dest.write_all(data)
write_all(bytes, off, data) ==
    [p \in 1..Max(Len(bytes), off + Len(data)) |->
        IF p > off /\ p <= off + Len(data) THEN data[p - off] ELSE bytes[p]]

\* Every block is taken as changed.
block_differs_always(block, entry) == TRUE

\* Only the first byte of the block is compared.
block_differs_first_byte(block, entry) == block[1] # entry.digest[2][1]

\* `hash != entry.digest` (line 702): whether the block must be rewritten
block_differs(block, entry) == Sha256(block) # entry.digest

\* The cluster record of entry i read back, decrypted and decompressed
\* (lines 704-728)
read_cluster(protected_header, file, entry, i) ==
    LET cluster == read_be(file, entry.cluster_offset, "cluster")
    IN IF ~cluster.ok THEN cluster
       ELSE
       LET opened ==
               IF protected_header.cluster_encryption = "Aes256"
               THEN IF i > Len(protected_header.nonce_table) THEN Err("Panic")
                    ELSE decrypt(Key_from_slice(protected_header.cluster_key),
                                 protected_header.nonce_table[i],
                                 cluster.val.data)
               ELSE Ok(cluster.val.data)
       IN IF ~opened.ok THEN opened
          ELSE IF protected_header.cluster_compression = "Zstd"
          THEN IF opened.val.sealed THEN Err("Zstd")
               ELSE decode_all(opened.val.body)
          ELSE Ok(opened.val.body)

NoStop == [entry |-> 0, bytes |-> 0]

RECURSIVE write_loop(_, _, _, _, _)
\* The loop over the digest table (lines 692-736).  st carries the target's
\* bytes and the numbers of cluster records read and of writes to the
\* target; stop names the entry at which the process is killed and the
\* number of bytes of that entry's block already written.
write_loop(self, file, i, st, stop) ==
    LET protected_header == unwrap(self.protected_header)
        digest_table == unwrap(self.digest_table).digest_table
    IN IF i > protected_header.cluster_count THEN [st EXCEPT !.result = "Ok"]
       ELSE IF i > Len(digest_table) THEN [st EXCEPT !.result = "Panic"]
       ELSE
       LET entry == digest_table[i]
           block == read_block(st.bytes, entry.block_offset,
                               protected_header.block_size)
       IN IF ~block.ok THEN [st EXCEPT !.result = block.err]
          ELSE IF ~block_differs(block.val, entry)
          THEN IF stop.entry = i THEN [st EXCEPT !.result = "Interrupted"]
               ELSE write_loop(self, file, i + 1, st, stop)
          ELSE
          LET data == read_cluster(protected_header, file, entry, i)
          IN IF ~data.ok
             THEN [st EXCEPT !.result = data.err, !.reads = @ + 1]
             ELSE IF stop.entry = i
             THEN [st EXCEPT
                      !.result = "Interrupted",
                      !.reads = @ + 1,
                      !.writes = @ + (IF stop.bytes > 0 THEN 1 ELSE 0),
                      !.bytes = write_all(@, entry.block_offset,
                                    SubSeq(data.val, 1,
                                           Min(stop.bytes, Len(data.val))))]
             ELSE write_loop(self, file, i + 1,
                             [st EXCEPT
                                 !.reads = @ + 1,
                                 !.writes = @ + 1,
                                 !.bytes = write_all(@, entry.block_offset,
                                                     data.val)],
                             stop)

\* The loaded-state check comes after the target was opened with create.
rejected_created(dest) ==
    [exists |-> TRUE, bytes |-> IF dest.exists THEN dest.bytes ELSE <<>>]

\* The target after bail!("Image not loaded") (lines 661-663): the check
\* precedes OpenOptions::open, so the target is as it was found
rejected(dest) == dest

\* ImageHandle::write onto the target dest: the target afterwards, the
\* result, and the numbers of cluster reads and target writes
write(self, file, dest, stop) ==
    IF not_loaded(self)
    THEN [target |-> rejected(dest), result |-> "NotLoaded", reads |-> 0, writes |-> 0]
    ELSE
    LET created == IF dest.exists THEN dest.bytes ELSE <<>>
    IN IF ~file.exists
       THEN [target |-> [exists |-> TRUE, bytes |-> created],
             result |-> "Io", reads |-> 0, writes |-> 0]
       ELSE
       LET st == write_loop(self, file, 1,
                            [bytes |-> extend(created, self.primary_header.size),
                             result |-> "Ok", reads |-> 0, writes |-> 0],
                            stop)
       IN [target |-> [exists |-> TRUE, bytes |-> st.bytes],
           result |-> st.result, reads |-> st.reads, writes |-> st.writes]

(* ------------------------------- the state ------------------------------ *)

VARIABLES
    image,          \* the image file at the destination path
    path,           \* the stem of the image file's name
    stream,         \* the random generator the last convert drew from
    handle,         \* Option<ImageHandle>: the handle the caller holds
    hstate,         \* Unopened, Converted, Opened or Loaded
    target,         \* the raw target
    targetBefore,   \* Option: the target as the last write found it
    interrupts,     \* number of writes killed so far
    tampered,       \* place of the region of the file that was changed
                    \* last after convert, 0 when none was
    qcow,           \* Option: the source given to convert
    manifest,       \* Option: the manifest given to convert
    lastOp,         \* the last operation called
    lastArg,        \* its argument
    result,         \* what it returned
    clusterReads,   \* cluster records the last write read from the image
    targetWrites,   \* writes the last write made to the target
    writers         \* where each of the concurrent calls of write stands

vars == <<image, path, stream, handle, hstate, target, targetBefore,
          interrupts, tampered, qcow,
          manifest, lastOp, lastArg, result, clusterReads, targetWrites,
          writers>>

NoTarget == [exists |-> FALSE, bytes |-> <<>>]

\* The concurrent calls of write, and one that has not started
Writers == 1..MaxWriters
Idle == [pc |-> "idle", i |-> 0, wrote |-> {}, result |-> "Ok"]

\* The targets a first write may find: none, or a file of any length up to
\* MaxTargetLen that holds a one in every byte
InitialTargets ==
    {NoTarget} \cup
        {[exists |-> TRUE, bytes |-> [i \in 1..n |-> 1]] : n \in 0..MaxTargetLen}

Init ==
    /\ image = NoFile
    /\ path = small
    /\ stream = 0
    /\ handle = None
    /\ hstate = "Unopened"
    /\ target = NoTarget
    /\ targetBefore = None
    /\ interrupts = 0
    /\ tampered = 0
    /\ qcow = None
    /\ manifest = None
    /\ lastOp = "none"
    /\ lastArg = None
    /\ result = "Ok"
    /\ clusterReads = 0
    /\ targetWrites = 0
    /\ writers = [w \in Writers |-> Idle]

\* convert of any source under one of the manifests to the destination
\* small.gb, drawing from one of the generators; with io_errors an I/O call
\* of the run may return an error
ConvertWith(configs, io_errors, streams) ==
    /\ lastOp = "none"
    /\ \E source \in Qcows, config \in configs, rng \in streams :
         \E fail \in -1..(IF io_errors THEN RegionCount(source) ELSE -1) :
            LET r == convert(source, config, rng, fail)
            IN /\ image' = r.file
               /\ path' = small
               /\ stream' = rng
               /\ handle' = r.handle
               /\ hstate' = IF r.result = "Ok" THEN "Converted" ELSE hstate
               /\ qcow' = Some(source)
               /\ manifest' = Some(config)
               /\ lastOp' = "convert"
               /\ lastArg' = None
               /\ result' = r.result
    /\ UNCHANGED <<writers, target, targetBefore, interrupts, tampered, clusterReads,
                   targetWrites>>

Convert == ConvertWith(BuildConfigs, TRUE, RngStreams)

\* open of the image file under one of the given names.  A caller opens and
\* loads the image before it starts writing the target.
OpenAt(stems) ==
    /\ image.exists
    /\ is_none(targetBefore)
    /\ tampered = 0
    /\ \E stem \in stems :
         LET r == open(stem, image)
         IN /\ path' = stem
            /\ handle' = IF r.ok THEN Some(r.val) ELSE handle
            /\ hstate' = IF r.ok THEN "Opened" ELSE hstate
            /\ result' = IF r.ok THEN "Ok" ELSE r.err
    /\ lastOp' = "open"
    /\ lastArg' = None
    /\ UNCHANGED <<writers, image, stream, target, targetBefore, interrupts,
                   tampered, qcow, manifest, clusterReads, targetWrites>>

\* load is called on the handle open returned.
LoadIf(undamaged) ==
    /\ hstate \in {"Opened", "Loaded"}
    /\ is_none(targetBefore)
    /\ undamaged => tampered = 0
    /\ \E password \in {None} \cup {Some(w) : w \in Passwords} :
         LET r == load(unwrap(handle), image, password)
         IN /\ handle' = IF r.ok THEN Some(r.val) ELSE handle
            /\ hstate' = IF r.ok THEN "Loaded" ELSE hstate
            /\ result' = IF r.ok THEN "Ok" ELSE r.err
            /\ lastArg' = Some(password)
    /\ lastOp' = "load"
    /\ UNCHANGED <<writers, image, path, stream, target, targetBefore, interrupts,
                   tampered, qcow, manifest, clusterReads, targetWrites>>

Load == LoadIf(TRUE)

\* The entries and byte counts at which a write may be killed
Stops(self) ==
    {NoStop} \cup
        IF is_none(self.protected_header) \/ interrupts >= MaxInterrupts
           \/ tampered # 0
        THEN {}
        ELSE {[entry |-> i, bytes |-> k] :
                 i \in 1..unwrap(self.protected_header).cluster_count,
                 k \in 0..(unwrap(self.protected_header).block_size - 1)}

Write ==
    /\ is_some(handle)
    /\ \E dest \in (IF is_none(targetBefore) THEN InitialTargets ELSE {target}),
          stop \in Stops(unwrap(handle)) :
         LET r == write(unwrap(handle), image, dest, stop)
         IN /\ target' = r.target
            /\ targetBefore' = Some(dest)
            /\ interrupts' = IF stop = NoStop THEN interrupts
                              ELSE interrupts + 1
            /\ result' = r.result
            /\ clusterReads' = r.reads
            /\ targetWrites' = r.writes
            /\ lastArg' = None
    /\ lastOp' = "write"
    /\ UNCHANGED <<writers, image, path, stream, handle, hstate, tampered, qcow,
                   manifest>>

\* open of the image where convert wrote it
Open == OpenAt({path})

Next == Convert \/ Open \/ Load \/ Write

Spec == Init /\ [][Next]_vars

(* ------------------------ a damaged image file ------------------------- *)

\* The values a changed byte may take
TamperValues == 0..2

\* Index in the file of the record of the c-th cluster
ClusterSegment(c) == 3 + c

\* One byte of the stored data of one cluster of a password-protected image
\* is changed, after the image was loaded and before it is written out.
Tamper ==
    /\ hstate = "Loaded"
    /\ is_some(unwrap(manifest).password)
    /\ is_none(targetBefore)
    /\ tampered = 0
    /\ \E c \in 1..unwrap(unwrap(handle).protected_header).cluster_count :
         LET data == image.segs[ClusterSegment(c)].blob.body.data
         IN /\ tampered' = c
            /\ IF data.sealed
               THEN image' = [image EXCEPT
                                !.segs[ClusterSegment(c)].blob.body.data.intact
                                    = FALSE]
               ELSE \E p \in 1..Len(data.body), v \in TamperValues :
                      /\ v # data.body[p]
                      /\ image' = [image EXCEPT
                                      !.segs[ClusterSegment(c)].blob.body.data.body[p]
                                          = v]
    /\ lastOp' = "tamper"
    /\ lastArg' = None
    /\ UNCHANGED <<writers, path, stream, handle, hstate, target, targetBefore,
                   interrupts, qcow, manifest, result, clusterReads,
                   targetWrites>>

ConvertProtected ==
    ConvertWith({config \in BuildConfigs : is_some(config.password)}, FALSE,
                RngStreams)

WriteDamaged == tampered # 0 /\ Write

NextTamper == ConvertProtected \/ Open \/ Load \/ Tamper \/ WriteDamaged

SpecTamper == Init /\ [][NextTamper]_vars

(* --------------------------- change_password --------------------------- *)

\* ImageHandle::change_password (lines 390-400): the key of the new password
\* is derived, a generator is taken, and todo!() panics; no byte of the file
\* is read or written.
change_password(self, file, old_password, new_password) ==
    LET cipher == new_key(new_password)
    IN [result |-> "Panic", file |-> file]

ChangePassword ==
    /\ is_some(handle)
    /\ lastOp # "change_password"
    /\ \E old_password \in Passwords, new_password \in Passwords :
         LET r == change_password(unwrap(handle), image, old_password,
                                  new_password)
         IN /\ image' = r.file
            /\ result' = r.result
            /\ lastArg' = Some(<<old_password, new_password>>)
    /\ lastOp' = "change_password"
    /\ UNCHANGED <<writers, path, stream, handle, hstate, target, targetBefore,
                   interrupts, tampered, qcow, manifest, clusterReads,
                   targetWrites>>

NextPassword == ConvertProtected \/ Open \/ Load \/ ChangePassword

SpecPassword == Init /\ [][NextPassword]_vars

(* ------------------------- damaged metadata ---------------------------- *)

\* The regions load reads
LoadedKinds == {"directory", "protected", "config", "digest"}

\* The regions of the file that no longer hold what convert wrote
Torn == {i \in 1..Len(image.segs) : image.segs[i].kind = "torn"}

\* Between two calls the file behind the handle is damaged: the bytes of one
\* metadata region are overwritten, or the file is cut where a region starts.
Damage ==
    /\ hstate \in {"Opened", "Loaded"}
    /\ is_none(targetBefore)
    /\ Cardinality(Torn) < MaxDamage
    /\ \E i \in 1..Len(image.segs) :
         /\ image.segs[i].kind \in LoadedKinds
         /\ \/ image' = [image EXCEPT
                            !.segs[i] = Segment("torn",
                                                Plain(<<>>, @.blob.len))]
            \/ /\ Torn = {}
               /\ image' = [image EXCEPT !.segs = SubSeq(@, 1, i - 1)]
         /\ tampered' = i
    /\ lastOp' = "damage"
    /\ lastArg' = None
    /\ UNCHANGED <<writers, path, stream, handle, hstate, target, targetBefore,
                   interrupts, qcow, manifest, result, clusterReads,
                   targetWrites>>

ConvertDone == ConvertWith(BuildConfigs, FALSE, RngStreams)

LoadDamaged == LoadIf(FALSE)

NextDamage == ConvertDone \/ Open \/ LoadDamaged \/ Damage

SpecDamage == Init /\ [][NextDamage]_vars

(* ---------------------- two writes at the same time -------------------- *)

\* The targets the concurrent writes may find: none, or MaxTargetLen ones
SharedTargets ==
    {NoTarget, [exists |-> TRUE, bytes |-> [i \in 1..MaxTargetLen |-> 1]]}

ConvertPlain ==
    ConvertWith({config \in BuildConfigs : is_none(config.password)}, FALSE,
                RngStreams)

\* Lines 661-676 of one call: the loaded-state check, then
\* OpenOptions::new().create(true).write(true).read(true).open(dest), which
\* takes no lock and does not fail when another call has the file open.
WriteOpen(w) ==
    /\ is_some(handle)
    /\ writers[w].pc = "idle"
    /\ \E dest \in (IF is_none(targetBefore) THEN SharedTargets ELSE {target}) :
         /\ targetBefore' = IF is_none(targetBefore) THEN Some(dest)
                            ELSE targetBefore
         /\ IF not_loaded(unwrap(handle))
            THEN /\ target' = rejected(dest)
                 /\ writers' = [writers EXCEPT ![w].pc = "done",
                                               ![w].result = "NotLoaded"]
            ELSE /\ target' = [exists |-> TRUE,
                               bytes |-> IF dest.exists THEN dest.bytes
                                         ELSE <<>>]
                 /\ writers' = [writers EXCEPT ![w].pc = "opened"]
    /\ lastOp' = "writer"
    /\ lastArg' = Some(w)
    /\ UNCHANGED <<image, path, stream, handle, hstate, interrupts, tampered,
                   qcow, manifest, result, clusterReads, targetWrites>>

\* Lines 682-687 of one call: the image is opened for reading and the
\* target is extended when it is shorter than the disk.
WriteExtend(w) ==
    /\ writers[w].pc = "opened"
    /\ IF ~image.exists
       THEN /\ writers' = [writers EXCEPT ![w].pc = "done",
                                          ![w].result = "Io"]
            /\ UNCHANGED target
       ELSE /\ target' = [target EXCEPT
                            !.bytes = extend(@, unwrap(handle).primary_header.size)]
            /\ writers' = [writers EXCEPT ![w].pc = "loop", ![w].i = 1]
    /\ lastOp' = "writer"
    /\ lastArg' = Some(w)
    /\ UNCHANGED <<image, path, stream, handle, hstate, targetBefore,
                   interrupts, tampered, qcow, manifest, result, clusterReads,
                   targetWrites>>

\* Lines 692-702 of one call: the loop test, the read of the block of entry
\* i and the comparison of its hash with the entry's digest.
WriteRead(w) ==
    /\ writers[w].pc = "loop"
    /\ LET self == unwrap(handle)
           protected_header == unwrap(self.protected_header)
           digest_table == unwrap(self.digest_table).digest_table
           i == writers[w].i
       IN IF i > protected_header.cluster_count
          THEN writers' = [writers EXCEPT ![w].pc = "done"]
          ELSE IF i > Len(digest_table)
          THEN writers' = [writers EXCEPT ![w].pc = "done",
                                          ![w].result = "Panic"]
          ELSE
          LET block == read_block(target.bytes, digest_table[i].block_offset,
                                  protected_header.block_size)
          IN IF ~block.ok
             THEN writers' = [writers EXCEPT ![w].pc = "done",
                                             ![w].result = block.err]
             ELSE IF block_differs(block.val, digest_table[i])
             THEN writers' = [writers EXCEPT ![w].pc = "write"]
             ELSE writers' = [writers EXCEPT ![w].i = @ + 1]
    /\ lastOp' = "writer"
    /\ lastArg' = Some(w)
    /\ UNCHANGED <<image, path, stream, handle, hstate, target, targetBefore,
                   interrupts, tampered, qcow, manifest, result, clusterReads,
                   targetWrites>>

\* Lines 704-732 of one call: the cluster of entry i is read from the image
\* and written over the block.
WriteBlock(w) ==
    /\ writers[w].pc = "write"
    /\ LET self == unwrap(handle)
           protected_header == unwrap(self.protected_header)
           i == writers[w].i
           entry == unwrap(self.digest_table).digest_table[i]
           data == read_cluster(protected_header, image, entry, i)
       IN IF ~data.ok
          THEN /\ writers' = [writers EXCEPT ![w].pc = "done",
                                             ![w].result = data.err]
               /\ UNCHANGED target
          ELSE /\ target' = [target EXCEPT
                               !.bytes = write_all(@, entry.block_offset,
                                                   data.val)]
               /\ writers' = [writers EXCEPT ![w].pc = "loop",
                                             ![w].i = @ + 1,
                                             ![w].wrote = @ \cup {i}]
    /\ lastOp' = "writer"
    /\ lastArg' = Some(w)
    /\ UNCHANGED <<image, path, stream, handle, hstate, targetBefore,
                   interrupts, tampered, qcow, manifest, result, clusterReads,
                   targetWrites>>

WriterOpens == \E w \in Writers : WriteOpen(w)
WriterExtends == \E w \in Writers : WriteExtend(w)
WriterReads == \E w \in Writers : WriteRead(w)
WriterWrites == \E w \in Writers : WriteBlock(w)

NextConcurrent ==
    ConvertPlain \/ WriterOpens \/ WriterExtends \/ WriterReads
        \/ WriterWrites

SpecConcurrent == Init /\ [][NextConcurrent]_vars

(* ------------------- the image given as the target -------------------- *)

\* #[brw(magic = b"\xc0\x1d\xb0\x01", big)]
MagicBytes == <<192, 29, 176, 1>>
\* magic(4) version(1) size(8): the bytes of the file the blocks of the
\* largest disk reach into
PrefixLen == 13

\* A big-endian integer below 256 in width bytes
be_bytes(n, width) == [i \in 1..width |-> IF i = width THEN n ELSE 0]

\* The first PrefixLen bytes binrw writes for a PrimaryHeader
primary_prefix(h) == MagicBytes \o <<h.version>> \o be_bytes(h.size, 8)

\* The first PrefixLen bytes of an image file
file_prefix(file) ==
    IF file.segs[1].kind = "primary"
    THEN primary_prefix(file.segs[1].blob.body)
    ELSE file.segs[1].blob.body.prefix

\* The image file after a write that took its first bytes as the target
written_to(file, r) ==
    [result |-> r.result, reads |-> r.reads, writes |-> r.writes,
     file |-> IF r.target.bytes = file_prefix(file) THEN file
              ELSE [file EXCEPT
                       !.segs[1] = Segment("torn",
                                           Plain([prefix |-> r.target.bytes],
                                                 PrimaryHeaderLen))]]

\* write(dest) with dest the path of the image itself: OpenOptions opens the
\* image file for reading and writing, its length is at least that of the
\* disk, and every block offset lies within the first PrefixLen bytes, so
\* the blocks read and written are bytes of the primary header.
write_over(self, file) ==
    written_to(file, write(self, file,
                           [exists |-> TRUE, bytes |-> file_prefix(file)],
                           NoStop))

WriteOverImage ==
    /\ is_some(handle)
    /\ image.exists
    /\ \E r \in {write_over(unwrap(handle), image)} :
          /\ image' = r.file
          /\ result' = r.result
          /\ clusterReads' = r.reads
          /\ targetWrites' = r.writes
    /\ lastOp' = "write"
    /\ lastArg' = Some(path)
    /\ UNCHANGED <<writers, path, stream, handle, hstate, target,
                   targetBefore, interrupts, tampered, qcow, manifest>>

NextAlias == ConvertDone \/ Open \/ Load \/ WriteOverImage

SpecAlias == Init /\ [][NextAlias]_vars

(* --------------- any file name and any random generator --------------- *)

\* Names under which an image file is opened: small, the hex hash of its
\* contents, PatternRepeat hex digits that are not that hash, one hex digit
\* fewer, and PatternRepeat hex digits between other characters
Stems(file) ==
    {small,
     compute_id(file),
     Text(<<Run(TRUE, PatternRepeat)>>),
     Text(<<Run(TRUE, PatternRepeat - 1)>>),
     Text(<<Run(FALSE, 1), Run(TRUE, PatternRepeat), Run(FALSE, 1)>>)}

ConvertAny == ConvertWith(BuildConfigs, FALSE, AnyRngStreams)

OpenNamed == OpenAt(Stems(image))

NextCapture == ConvertAny \/ OpenNamed \/ Load

SpecCapture == Init /\ [][NextCapture]_vars

(* ------------------------- what the claims read ------------------------ *)

\* The contents of block b (from 1) of the disk a source represents
SourceBlock(source, b) ==
    LET per == l2_entries_per_cluster(source.header)
        i == ((b - 1) \div per) + 1
        j == ((b - 1) % per) + 1
    IN IF i > Len(source.l1_table) \/ is_none(source.l1_table[i])
          \/ ~unwrap(source.l1_table[i])[j].is_used
       THEN Zeros(cluster_size(source.header))
       ELSE unwrap(source.l1_table[i])[j].contents

\* The plaintext disk a source represents: header.size bytes
Disk(source) ==
    [p \in 1..source.header.size |->
        SourceBlock(source, ((p - 1) \div cluster_size(source.header)) + 1)
            [((p - 1) % cluster_size(source.header)) + 1]]

Encrypted == is_some(manifest) /\ is_some(unwrap(manifest).password)

\* The digest entries of the handle, none while it has no digest table
Entries ==
    IF is_none(handle) \/ is_none(unwrap(handle).digest_table) THEN <<>>
    ELSE unwrap(unwrap(handle).digest_table).digest_table

BlockSize == cluster_size(unwrap(qcow).header)

\* Byte position p (from 1) lies in the block of some digest entry
InEntryRange(p) ==
    \E i \in 1..Len(Entries) :
        p > Entries[i].block_offset /\ p <= Entries[i].block_offset + BlockSize

\* The bytes of t at the block of entry e; shorter when t ends inside it
BlockAt(t, e) ==
    SubSeq(t.bytes, e.block_offset + 1,
           Min(Len(t.bytes), e.block_offset + BlockSize))

(* -------------------------------- claims ------------------------------- *)

\* C1: convert, open, load with the password given to convert, and a write
\* that runs to completion onto any target succeed and leave the target
\* equal to the plaintext disk of the source: populated blocks as in the
\* source, unpopulated blocks zero.
C1_RoundTrip ==
    (lastOp = "write" /\ hstate = "Loaded" /\ interrupts = 0)
        => (result = "Ok" /\ target.bytes = Disk(unwrap(qcow)))

\* C2: on an image captured with password Some(P), load with any argument
\* other than Some(P) fails with an authentication error and leaves the
\* opened handle unpopulated.
C2_PasswordDiscrimination ==
    (lastOp = "load" /\ Encrypted /\ unwrap(lastArg) # unwrap(manifest).password)
        => /\ result = "AuthenticationFailed"
           /\ is_none(unwrap(handle).protected_header)
           /\ is_none(unwrap(handle).digest_table)

\* C3: when write returns Ok, the target holds at every digest entry's
\* block_offset the plaintext of that entry's cluster, which is the block
\* of the source at that offset and hashes to the entry's digest.
C3_ApplyPostcondition ==
    (lastOp = "write" /\ result = "Ok")
        => \A i \in 1..Len(Entries) :
              LET e == Entries[i]
                  stored == read_cluster(unwrap(unwrap(handle).protected_header),
                                         image, e, i)
              IN /\ stored.ok
                 /\ BlockAt(target, e) = stored.val
                 /\ BlockAt(target, e)
                        = SourceBlock(unwrap(qcow), (e.block_offset \div BlockSize) + 1)
                 /\ Sha256(BlockAt(target, e)) = e.digest

C3_Witness ==
    /\ lastOp = "write" /\ result = "Ok"
    /\ Len(Entries) >= 2
    /\ targetWrites >= 2

\* C4: whatever write returns, every byte of the target outside the blocks
\* of the digest entries is what it was before the call; the target never
\* shrinks, and the bytes an extension adds outside those blocks are zero.
C4_SparsePreservation ==
    lastOp = "write"
        => LET before == unwrap(targetBefore).bytes
           IN /\ target.exists => Len(target.bytes) >= Len(before)
              /\ ~target.exists => ~unwrap(targetBefore).exists
              /\ \A p \in 1..Len(target.bytes) :
                    ~InEntryRange(p)
                        => target.bytes[p] = (IF p <= Len(before) THEN before[p]
                                              ELSE 0)

C4_Witness ==
    /\ lastOp = "write" /\ result = "Ok" /\ targetWrites >= 1
    /\ \E p \in 1..Len(unwrap(targetBefore).bytes) :
          ~InEntryRange(p) /\ unwrap(targetBefore).bytes[p] = 1
                           /\ target.bytes[p] = 1

\* C5: a write that follows a write that returned Ok, with the same handle
\* on the same target, reads no cluster record, writes nothing and leaves
\* the target as it was.
C5_Idempotence ==
    [][(lastOp = "write" /\ result = "Ok" /\ lastOp' = "write")
          => /\ result' \in {"Ok", "Interrupted"}
             /\ target' = target
             /\ clusterReads' = 0
             /\ targetWrites' = 0]_vars

\* The target already held a block that only a write can have put there
\* (no initial target holds a zero followed by a one), and this write found
\* every block in place.
C5_Witness ==
    /\ lastOp = "write" /\ result = "Ok"
    /\ clusterReads = 0 /\ targetWrites = 0
    /\ targetBefore = Some(target)
    /\ \E i \in 1..Len(Entries) :
          /\ BlockAt(target, Entries[i])
                = [k \in 1..BlockSize |-> IF k = BlockSize THEN 1 ELSE 0]
          /\ ~block_differs(BlockAt(target, Entries[i]), Entries[i])

\* C6: write fails with the not-loaded error exactly on a handle that open
\* returned and on which no load has succeeded; a handle convert returned
\* and a loaded handle pass the check.
C6_HandleStateMachine ==
    lastOp = "write" => (result = "NotLoaded" <=> hstate = "Opened")

C6_Witness ==
    /\ lastOp = "write" /\ result = "NotLoaded"
    /\ ~Encrypted
    /\ is_some(unwrap(handle).protected_header)

\* C7: when convert returns an error after creating the destination file,
\* no file is left at the destination path.
C7_CaptureRollback ==
    (lastOp = "convert" /\ result # "Ok") => ~image.exists

\* C8: a write that runs to completion right after a write that was killed,
\* at an entry or in the middle of its block, leaves the target a single
\* uninterrupted write leaves when run on the target the killed write found.
C8_PartialApplyRecovery ==
    [][(lastOp = "write" /\ result = "Interrupted"
          /\ lastOp' = "write" /\ result' = "Ok")
          => LET clean == write(unwrap(handle), image, unwrap(targetBefore), NoStop)
             IN clean.result = "Ok" /\ target' = clean.target]_vars

\* A completed write that had blocks to rewrite after an earlier write was
\* killed
C8_Witness ==
    /\ lastOp = "write" /\ result = "Ok"
    /\ interrupts >= 1
    /\ targetWrites >= 1
    /\ unwrap(targetBefore) # target

\* C9: on an image captured with a password, after one byte of a cluster's
\* stored data was changed, a write that reaches that cluster's entry and
\* finds the target block different from the digest fails with an
\* authentication error and leaves that block as it found it.
C9_CorruptionDetection ==
    (lastOp = "write" /\ tampered # 0 /\ Encrypted /\ hstate = "Loaded"
       /\ tampered <= Len(Entries)
       /\ read_block(extend(unwrap(targetBefore).bytes,
                            unwrap(handle).primary_header.size),
                     Entries[tampered].block_offset, BlockSize).ok
       /\ block_differs(BlockAt([bytes |-> extend(unwrap(targetBefore).bytes,
                                     unwrap(handle).primary_header.size)],
                                Entries[tampered]),
                        Entries[tampered]))
        => /\ result = "AuthenticationFailed"
           /\ BlockAt(target, Entries[tampered])
                = BlockAt([bytes |-> extend(unwrap(targetBefore).bytes,
                                            unwrap(handle).primary_header.size)],
                          Entries[tampered])

\* C10: the protected header convert writes has cluster_encryption Aes256,
\* nonce_count = cluster_count and one nonce per cluster when the manifest
\* has a password, each cluster body sealed with cluster_key and the nonce
\* of its ordinal; without a password it has cluster_encryption None and
\* nonce_count 0.
C10_ClusterEncryption ==
    (lastOp = "convert" /\ result = "Ok")
        => LET h == unwrap(unwrap(handle).protected_header)
           IN IF Encrypted
              THEN /\ h.cluster_encryption = "Aes256"
                   /\ h.nonce_count = h.cluster_count
                   /\ Len(h.nonce_table) = h.cluster_count
                   /\ \A c \in 1..h.cluster_count :
                         LET data == image.segs[ClusterSegment(c)].blob.body.data
                         IN /\ data.sealed
                            /\ data.key = Key_from_slice(h.cluster_key)
                            /\ data.nonce = h.nonce_table[c]
              ELSE h.cluster_encryption = "None" /\ h.nonce_count = 0

\* The regions of the image file that hold metadata after the primary header
MetadataKinds == {"protected", "config", "digest", "directory"}

\* C11: the primary header convert writes and returns has encryption_type
\* Aes256 exactly when the manifest's password is Some, the empty password
\* included, and None exactly when it is None; with Aes256 every metadata
\* region is sealed under SHA-256 of the password, with None none is.
C11_HeaderEncryption ==
    (lastOp = "convert" /\ result = "Ok")
        => LET h == unwrap(handle).primary_header
               password == unwrap(manifest).password
           IN /\ image.segs[1].blob.body = h
              /\ h.encryption_type \in {"Aes256", "None"}
              /\ (h.encryption_type = "Aes256") <=> is_some(password)
              /\ (h.encryption_type = "None") <=> is_none(password)
              /\ \A i \in 1..Len(image.segs) :
                    image.segs[i].kind \in MetadataKinds
                        => IF is_some(password)
                           THEN /\ image.segs[i].blob.sealed
                                /\ image.segs[i].blob.key
                                      = Sha256(unwrap(password))
                           ELSE ~image.segs[i].blob.sealed

\* A convert with the empty password that sealed the protected header under
\* SHA-256 of the empty string
C11_Witness ==
    /\ lastOp = "convert" /\ result = "Ok"
    /\ unwrap(manifest).password = Some("")
    /\ unwrap(handle).primary_header.encryption_type = "Aes256"
    /\ image.segs[2].blob.sealed
    /\ image.segs[2].blob.key = Sha256("")

\* C12: in every file convert leaves, complete or not, the config region
\* holds the manifest with its password set to None, and so does the config
\* of the handle convert returns.
C12_PasswordNotPersisted ==
    lastOp = "convert"
        => LET cleared == [unwrap(manifest) EXCEPT !.password = None]
           IN /\ \A i \in 1..Len(image.segs) :
                    image.segs[i].kind = "config"
                        => /\ image.segs[i].blob.body = cleared
                           /\ image.segs[i].blob.body.password = None
              /\ is_some(handle) => unwrap(handle).config = Some(cleared)

\* A convert under the password "1234" that wrote the config region
C12_Witness ==
    /\ lastOp = "convert" /\ result = "Ok"
    /\ unwrap(manifest).password = Some("1234")
    /\ \E i \in 1..Len(image.segs) : image.segs[i].kind = "config"
    /\ is_some(unwrap(handle).config)

\* C13: the id of the handle convert or open returns, whatever the name of
\* the file, is the hex SHA-256 of the contents of the image file.
C13_ImageId ==
    (lastOp \in {"convert", "open"} /\ result = "Ok")
        => unwrap(handle).id = compute_id(image)

\* The numbers (from 1) of the blocks of a source that have a used L2 entry
UsedBlocks(source) ==
    LET per == l2_entries_per_cluster(source.header)
    IN {b \in 1..(Len(source.l1_table) * per) :
           LET i == ((b - 1) \div per) + 1
               j == ((b - 1) % per) + 1
           IN /\ is_some(source.l1_table[i])
              /\ unwrap(source.l1_table[i])[j].is_used}

\* The protected header, digest table and directory as the file holds them
FileProtected == image.segs[2].blob.body
FileDigests == image.segs[Len(image.segs) - 1].blob.body
FileDirectory == image.segs[Len(image.segs)].blob.body

\* The indices of the cluster records of the file
ClusterSegments == {i \in 1..Len(image.segs) : image.segs[i].kind = "cluster"}

Converted == lastOp = "convert" /\ result = "Ok"

\* C14: in the file convert writes, digest_count, cluster_count, the number
\* of digest entries serialised, the number of cluster records written and
\* the number of used L2 entries of the source are all the same number.
C14_CountAgreement ==
    Converted
        => /\ FileDigests.digest_count = FileProtected.cluster_count
           /\ FileDigests.digest_count = Len(FileDigests.digest_table)
           /\ FileDigests.digest_count = Cardinality(ClusterSegments)
           /\ FileDigests.digest_count = Cardinality(UsedBlocks(unwrap(qcow)))
           /\ unwrap(handle).protected_header = Some(FileProtected)
           /\ unwrap(handle).digest_table = Some(FileDigests)

\* A source with two used clusters, one of them all zero, and an unused
\* entry in a table that was read
C14_Witness ==
    /\ Converted
    /\ FileDigests.digest_count >= 2
    /\ \E k \in 1..Len(FileDigests.digest_table) :
          FileDigests.digest_table[k].digest = Sha256(Zeros(BlockSize))
    /\ \E i \in 1..Len(unwrap(qcow).l1_table) :
          /\ is_some(unwrap(qcow).l1_table[i])
          /\ \E j \in 1..Len(unwrap(unwrap(qcow).l1_table[i])) :
                ~unwrap(unwrap(qcow).l1_table[i])[j].is_used

\* C15: the digest entries convert lists are in strictly ascending
\* block_offset, each a multiple of block_size, the offsets being those of
\* the used blocks of the source as unused entries and missing L2 tables
\* place them; the cluster records lie in the file in the same order, the
\* k-th holding the block of the k-th entry.
C15_DigestOrdering ==
    Converted
        => LET entries == FileDigests.digest_table
               block_size == FileProtected.block_size
           IN /\ \A k \in 1..(Len(entries) - 1) :
                    /\ entries[k].block_offset < entries[k + 1].block_offset
                    /\ entries[k].cluster_offset < entries[k + 1].cluster_offset
              /\ \A k \in 1..Len(entries) :
                    /\ entries[k].block_offset % block_size = 0
                    /\ LET stored == read_cluster(FileProtected, image,
                                                  entries[k], k)
                       IN /\ stored.ok
                          /\ stored.val
                               = SourceBlock(unwrap(qcow),
                                     (entries[k].block_offset \div block_size) + 1)
              /\ {entries[k].block_offset : k \in 1..Len(entries)}
                    = {(b - 1) * block_size : b \in UsedBlocks(unwrap(qcow))}

\* A source whose first L1 entry has no L2 table and whose second has a
\* used cluster: the first digest entry lies a whole L2 table in
C15_Witness ==
    /\ Converted
    /\ is_none(unwrap(qcow).l1_table[1])
    /\ Len(FileDigests.digest_table) >= 1
    /\ FileDigests.digest_table[1].block_offset
          = BlockSize * l2_entries_per_cluster(unwrap(qcow).header)

\* C16: each digest entry's cluster_offset is the file position at which
\* its cluster record starts, the record being the 4-byte size and size
\* bytes of data; the records lie between the end of the config region and
\* digest_table_offset and do not overlap.
C16_ClusterPlacement ==
    Converted
        => LET entries == FileDigests.digest_table
               at(k) == SegIndexAt(image.segs, entries[k].cluster_offset, 1, 0)
               len(k) == image.segs[at(k)].blob.len
           IN /\ \A k \in 1..Len(entries) :
                    /\ at(k) = ClusterSegment(k)
                    /\ image.segs[at(k)].kind = "cluster"
                    /\ image.segs[at(k)].blob.body.size
                          = image.segs[at(k)].blob.body.data.len
                    /\ len(k) = ClusterSizeFieldLen
                                  + image.segs[at(k)].blob.body.size
                    /\ entries[k].cluster_offset
                          >= FileDirectory.config_offset + FileDirectory.config_size
                    /\ entries[k].cluster_offset + len(k)
                          <= FileDirectory.digest_table_offset
              /\ \A k \in 1..Len(entries) : \A l \in (k + 1)..Len(entries) :
                    entries[k].cluster_offset + len(k) <= entries[l].cluster_offset

\* An image under a password with two cluster records
C16_Witness ==
    /\ Converted
    /\ Encrypted
    /\ Len(FileDigests.digest_table) >= 2
    /\ SegIndexAt(image.segs, FileDigests.digest_table[2].cluster_offset, 1, 0)
          = ClusterSegment(2)

\* C17: the size in the primary header convert writes is a whole number of
\* blocks of the protected header's block_size.
C17_SizeAlignment ==
    Converted
        => image.segs[1].blob.body.size % FileProtected.block_size = 0

\* C18: every digest entry convert lists has block_offset below the size in
\* the primary header, and the block_size bytes at block_offset lie within
\* a target that write has extended to that size.
C18_BlockOffsetsInRange ==
    Converted
        => \A k \in 1..Len(FileDigests.digest_table) :
              LET e == FileDigests.digest_table[k]
                  size == image.segs[1].blob.body.size
              IN /\ e.block_offset < size
                 /\ read_block(extend(<<>>, size), e.block_offset,
                               FileProtected.block_size).ok

\* The nonces of the four regions sealed under the header key, in the order
\* convert draws them, and the nonces of the clusters
HeaderNonces ==
    <<FileDirectory.protected_nonce, FileDirectory.config_nonce,
      FileDirectory.digest_table_nonce, image.segs[1].blob.body.directory_nonce>>

Distinct(seq) ==
    \A i \in 1..Len(seq) : \A j \in (i + 1)..Len(seq) : seq[i] # seq[j]

\* The region of the file of a kind
Region(kind) ==
    image.segs[CHOOSE i \in 1..Len(image.segs) : image.segs[i].kind = kind]

Populated(h) ==
    \/ is_some(h.protected_header) \/ is_some(h.config)
    \/ is_some(h.digest_table) \/ is_some(h.directory)

\* C20: open of an image captured with a password returns a handle with the
\* primary header of the file and none of protected_header, config,
\* digest_table and directory; a step that makes one of them present in an
\* opened handle is a load that succeeds with the password of the capture.
C20_OpenEncrypted ==
    [][/\ (lastOp' = "open" /\ result' = "Ok" /\ Encrypted)
            => /\ unwrap(handle').primary_header = image.segs[1].blob.body
               /\ ~Populated(unwrap(handle'))
       /\ (Encrypted /\ hstate = "Opened" /\ ~Populated(unwrap(handle))
             /\ Populated(unwrap(handle')))
            => /\ lastOp' = "load" /\ result' = "Ok"
               /\ unwrap(lastArg') = unwrap(manifest).password]_vars

\* The image file is the whole file a convert without I/O error wrote.
Complete ==
    /\ is_some(qcow)
    /\ image = convert(unwrap(qcow), unwrap(manifest), stream, -1).file

\* C21: open of a complete image captured without a password succeeds and
\* returns the primary and protected headers of the file, which are those of
\* the handle convert returned, the primary header carrying the offset and
\* size of the directory; its digest_table is None; a load that succeeds on
\* such an image leaves a digest table of one entry per used block.
C21_OpenUnencrypted ==
    [][/\ (lastOp' = "open" /\ Complete /\ ~Encrypted)
            => /\ result' = "Ok"
               /\ unwrap(handle').primary_header = image.segs[1].blob.body
               /\ unwrap(handle').protected_header = Some(FileProtected)
               /\ hstate = "Converted"
                     => /\ unwrap(handle').primary_header
                              = unwrap(handle).primary_header
                        /\ unwrap(handle').protected_header
                              = unwrap(handle).protected_header
               /\ unwrap(handle').primary_header.directory_offset
                     = stream_position(SubSeq(image.segs, 1, Len(image.segs) - 1))
               /\ unwrap(handle').primary_header.directory_size
                     = Region("directory").blob.len
               /\ is_none(unwrap(handle').digest_table)
       /\ (lastOp' = "load" /\ result' = "Ok" /\ Complete /\ ~Encrypted)
            => /\ is_some(unwrap(handle').digest_table)
               /\ Len(unwrap(unwrap(handle').digest_table).digest_table)
                     = Cardinality(UsedBlocks(unwrap(qcow)))]_vars

\* A load on an opened image without password that found two digest entries
C21_Witness ==
    /\ lastOp = "load" /\ result = "Ok"
    /\ Complete /\ ~Encrypted
    /\ unwrap(handle).primary_header.directory_offset > 0
    /\ Len(Entries) >= 2

\* C22: a write that passes the loaded-state check leaves a target that was
\* shorter than PrimaryHeader.size, or absent, exactly that long, also when
\* it stops at its first block; a target at least that long keeps its
\* length.
C22_TargetExtension ==
    (lastOp = "write" /\ result # "NotLoaded")
        => LET size == unwrap(handle).primary_header.size
               before == unwrap(targetBefore)
           IN /\ target.exists
              /\ Len(before.bytes) < size => Len(target.bytes) = size
              /\ Len(before.bytes) >= size
                    => Len(target.bytes) = Len(before.bytes)

\* A write killed at its first entry before it wrote a byte, on a target
\* that did not exist: the target has the size of the disk and holds zeros
C22_Witness ==
    /\ lastOp = "write" /\ result = "Interrupted"
    /\ targetWrites = 0
    /\ ~unwrap(targetBefore).exists
    /\ unwrap(handle).primary_header.size >= 2
    /\ target.bytes = Zeros(unwrap(handle).primary_header.size)

\* The block_offset and digest of the entries of a digest table, in order
DigestContents(digest_table) ==
    [k \in 1..Len(digest_table) |->
        [block_offset |-> digest_table[k].block_offset,
         digest |-> digest_table[k].digest]]

\* C23: the digest table of the file convert wrote has the entries, in
\* number, order, block_offset and digest, that a run of convert on the
\* same source and manifest has with any other random generator.
C23_DigestDeterminism ==
    Converted
        => \A rng \in AnyRngStreams :
              LET other == convert(unwrap(qcow), unwrap(manifest), rng, -1)
              IN /\ other.result = "Ok"
                 /\ DigestContents(
                        unwrap(unwrap(other.handle).digest_table).digest_table)
                      = DigestContents(FileDigests.digest_table)

\* Two runs under a password that drew different cluster keys and listed
\* two digest entries
C23_Witness ==
    /\ Converted /\ Encrypted
    /\ Len(FileDigests.digest_table) >= 2
    /\ \E rng \in AnyRngStreams :
          LET other == convert(unwrap(qcow), unwrap(manifest), rng, -1)
          IN /\ unwrap(other.handle).protected_header # Some(FileProtected)
             /\ other.file # image

\* C24: for a source without a used cluster, convert succeeds and writes a
\* file with cluster_count 0, an empty nonce table, an empty digest table
\* and no cluster record; open succeeds on it, load with the password of
\* the capture succeeds, and a write onto an existing target of length
\* PrimaryHeader.size returns Ok and leaves the target as it was.
C24_EmptyImage ==
    (is_some(qcow) /\ UsedBlocks(unwrap(qcow)) = {})
        => /\ convert(unwrap(qcow), unwrap(manifest), stream, -1).result = "Ok"
           /\ Converted
                 => /\ FileProtected.cluster_count = 0
                    /\ FileProtected.nonce_count = 0
                    /\ FileProtected.nonce_table = <<>>
                    /\ FileDigests.digest_count = 0
                    /\ FileDigests.digest_table = <<>>
                    /\ ClusterSegments = {}
           /\ (lastOp = "open" /\ Complete) => result = "Ok"
           /\ (lastOp = "load" /\ Complete
                 /\ unwrap(lastArg) = unwrap(manifest).password)
                 => result = "Ok"
           /\ (lastOp = "write" /\ hstate # "Opened"
                 /\ unwrap(targetBefore).exists
                 /\ Len(unwrap(targetBefore).bytes)
                       = unwrap(handle).primary_header.size)
                 => /\ result = "Ok"
                    /\ target = unwrap(targetBefore)
                    /\ clusterReads = 0 /\ targetWrites = 0

\* A write of a loaded empty image under a password onto a target of the
\* size of the disk that holds a one in every byte
C24_Witness ==
    /\ lastOp = "write" /\ result = "Ok"
    /\ hstate = "Loaded" /\ Encrypted
    /\ UsedBlocks(unwrap(qcow)) = {}
    /\ unwrap(handle).primary_header.size >= 2
    /\ target.bytes = [p \in 1..unwrap(handle).primary_header.size |-> 1]
    /\ target = unwrap(targetBefore)

\* The cluster records of a file, in order
ClusterRecords(file) ==
    [k \in 1..Cardinality({i \in 1..Len(file.segs) : file.segs[i].kind = "cluster"})
        |-> file.segs[ClusterSegment(k)]]

\* What a handle opened and loaded with a password writes onto each target:
\* the load's error when the load fails
Applied(file, password) ==
    LET opened == open(small, file)
        loaded == IF opened.ok THEN load(opened.val, file, password) ELSE opened
    IN IF ~loaded.ok THEN <<loaded.err>>
       ELSE <<"Ok", [dest \in InitialTargets |->
                       write(loaded.val, file, dest, NoStop).target]>>

\* C25: change_password(old, new) on a complete image captured with password
\* old returns Ok; on the file it leaves, load with old fails and load with
\* new succeeds (new differing from old), the cluster records and
\* cluster_key are those of the file before, and write gives every target
\* the contents it gave it before the change.
C25_ChangePassword ==
    [][(lastOp' = "change_password" /\ Complete
          /\ unwrap(manifest).password = Some(unwrap(lastArg')[1])
          /\ unwrap(lastArg')[1] # unwrap(lastArg')[2])
         => LET old == Some(unwrap(lastArg')[1])
                new == Some(unwrap(lastArg')[2])
                opened == open(small, image')
            IN /\ result' = "Ok"
               /\ opened.ok
               /\ ~load(opened.val, image', old).ok
               /\ load(opened.val, image', new).ok
               /\ ClusterRecords(image') = ClusterRecords(image)
               /\ unwrap(load(opened.val, image', new).val.protected_header).cluster_key
                     = FileProtected.cluster_key
               /\ Applied(image', new) = Applied(image, old)]_vars

\* The region of a kind is damaged: convert wrote it at this place of the
\* file, and it is overwritten or cut off
TornRegion(kind) ==
    LET whole == convert(unwrap(qcow), unwrap(manifest), stream, -1).file.segs
        i == CHOOSE j \in 1..Len(whole) : whole[j].kind = kind
    IN i > Len(image.segs) \/ image.segs[i].kind = "torn"

PasswordArguments == {None} \cup {Some(w) : w \in Passwords}

\* C29: on a complete image captured without a password, load succeeds for
\* every password argument and every argument yields the same
\* protected_header, config, digest_table and directory: those convert
\* wrote.  The load that was performed returned Ok and left exactly these
\* fields in the handle.
C29_PasswordIgnored ==
    (hstate \in {"Opened", "Loaded"} /\ ~Encrypted /\ Complete)
        => /\ \A p \in PasswordArguments :
                LET r == load(unwrap(handle), image, p)
                IN /\ r.ok
                   /\ unwrap(r.val.protected_header) = FileProtected
                   /\ unwrap(r.val.config) = cleared_config(unwrap(manifest))
                   /\ unwrap(r.val.digest_table) = FileDigests
                   /\ unwrap(r.val.directory) = FileDirectory
                   /\ \A q \in PasswordArguments :
                        load(unwrap(handle), image, q) = r
           /\ lastOp = "load"
                => /\ result = "Ok"
                   /\ handle = Some(load(unwrap(handle), image, None).val)

\* A load with the password "1234" of an image captured without one
C29_Witness ==
    /\ lastOp = "load"
    /\ lastArg = Some(Some("1234"))
    /\ ~Encrypted /\ Complete
    /\ result = "Ok"
    /\ hstate = "Loaded"
    /\ unwrap(handle).primary_header.encryption_type = "None"
    /\ unwrap(unwrap(handle).config) = cleared_config(unwrap(manifest))

\* C30: a write that fails with the not-loaded error leaves the target as it
\* found it (absent when it was absent, the same bytes and length when it
\* existed), reads no cluster and writes nothing.
C30_RejectedWrite ==
    (lastOp = "write" /\ result = "NotLoaded")
        => /\ target = unwrap(targetBefore)
           /\ clusterReads = 0
           /\ targetWrites = 0

\* A write on a handle that was opened but not loaded, to a target path
\* where no file exists
C30_Witness ==
    /\ lastOp = "write"
    /\ result = "NotLoaded"
    /\ hstate = "Opened"
    /\ targetBefore = Some(NoTarget)
    /\ ~target.exists
    /\ unwrap(handle).primary_header.size > 0

\* The calls of write that have the target open
Holding == {w \in Writers : writers[w].pc \in {"opened", "loop", "write"}}

\* C26: at most one call of write has the target open at a time, no call
\* reads or writes a block while another has the target open, and no block
\* is written by two calls.
C26_ExclusiveTarget ==
    /\ Cardinality(Holding) <= 1
    /\ \A v \in Writers, w \in Writers :
         v # w => writers[v].wrote \cap writers[w].wrote = {}

\* C27: once convert has returned, an open, a load or a write leaves every
\* byte of the image file, and so its SHA-256 id, as it was.
C27_ImageImmutable ==
    [][(is_some(qcow) /\ lastOp' \in {"open", "load", "write"})
         => /\ image' = image
            /\ compute_id(image') = compute_id(image)]_vars

====
